---------------------------- MODULE Spec2Model ----------------------------
(***************************************************************************)
(* safe-npm: install npm/pnpm dependencies with a minimum publish age.     *)
(*                                                                         *)
(* The module models the `install` command of src/src/cli.ts (option       *)
(* validation, dependency collection, the resolution loop, the report and  *)
(* the gating of the installation strategy), the fixture helpers of the    *)
(* integration tests in the same file, and the version resolver and        *)
(* registry metadata source the command imports from ./resolver.js.        *)
(*                                                                         *)
(* Strings that the code only compares or prints are TLA+ strings.         *)
(* Strings that the code takes apart (a package spec, the --ignore list)   *)
(* are sequences of chunks, each chunk a TLA+ string; "@", "," and " " are *)
(* chunks of their own.  Instants are integers counting seconds, so the    *)
(* code's factor 1000 (milliseconds) is the unit of the model.             *)
(***************************************************************************)
EXTENDS Integers, Sequences, FiniteSets, TLC

VARIABLES
    argv,           \* packages given on the command line: a sequence of specs
    options,        \* the parsed command-line options
    packageJson,    \* package.json of the working directory, or NoFile
    backend,        \* "fixture" (SAFE_NPM_FIXTURES set) or "live"
    registry,       \* the metadata source: package name -> registry document
    unreachable,    \* names whose live fetch cannot complete
    pc,             \* position of the install action
    dependencyMap,  \* Map name -> range, in insertion order
    cursor,         \* index of the next entry of dependencyMap to resolve
    resolved,       \* Map name -> version, in insertion order
    failures,       \* Failure[]
    stdout,         \* what the report printed, in order
    exitCode,       \* process exit status, or Running
    spawned,        \* package-manager invocations
    written,        \* package.json after an overrides write, or NoFile
    last            \* the latest resolution: request, metadata, outcome

vars == <<argv, options, packageJson, backend, registry, unreachable, pc,
          dependencyMap, cursor, resolved, failures, stdout, exitCode,
          spawned, written, last>>

-----------------------------------------------------------------------------
(* Bounds *)

\* number of published versions in a generated registry document
MaxVersions == 3

\* number of package specs on a generated command line
MaxArgs == 2

-----------------------------------------------------------------------------
(* Time *)

DAY_IN_MS == 24 * 60 * 60

\* Date.now()
Now == 1000 * DAY_IN_MS

\* isoDaysAgo(days): an ISO-8601 string naming the instant `days` days ago
isoDaysAgo(days) == [iso |-> TRUE, t |-> Now - days * DAY_IN_MS]

\* a string that Date.parse maps to NaN
GarbageTime == [iso |-> FALSE, t |-> 0]

-----------------------------------------------------------------------------
(* Semantic versions *)

\* The version strings of the model, in no particular order.
VersionList ==
    <<"1.1.0", "1.2.0", "1.0.0", "1.2.0-rc.1", "2.0.0", "2.1.0", "2.2.0">>

InvalidVersion == [valid |-> FALSE, major |-> 0, minor |-> 0, patch |-> 0, pre |-> <<>>]

SemVer(ma, mi, pa, pre) ==
    [valid |-> TRUE, major |-> ma, minor |-> mi, patch |-> pa, pre |-> pre]

\* semver.parse: major.minor.patch and the pre-release identifiers (numeric
\* identifiers as numbers; "rc" is written 0 followed by its number)
parseVersion(s) ==
    CASE s = "1.0.0"      -> SemVer(1, 0, 0, <<>>)
      [] s = "1.1.0"      -> SemVer(1, 1, 0, <<>>)
      [] s = "1.2.0"      -> SemVer(1, 2, 0, <<>>)
      [] s = "1.2.0-rc.1" -> SemVer(1, 2, 0, <<0, 1>>)
      [] s = "2.0.0"      -> SemVer(2, 0, 0, <<>>)
      [] s = "2.1.0"      -> SemVer(2, 1, 0, <<>>)
      [] s = "2.2.0"      -> SemVer(2, 2, 0, <<>>)
      [] s = "0.0.0"      -> SemVer(0, 0, 0, <<>>)
      [] OTHER            -> InvalidVersion

RECURSIVE comparePre(_, _)
\* pre-release precedence: identifier by identifier, a longer list wins
comparePre(p, q) ==
    IF p = <<>> /\ q = <<>> THEN 0
    ELSE IF p = <<>> THEN -1
    ELSE IF q = <<>> THEN 1
    ELSE IF Head(p) < Head(q) THEN -1
    ELSE IF Head(p) > Head(q) THEN 1
    ELSE comparePre(Tail(p), Tail(q))

\* SemVer.compare on parsed versions: -1, 0 or 1
compareParsed(a, b) ==
    IF a.major /= b.major THEN (IF a.major < b.major THEN -1 ELSE 1)
    ELSE IF a.minor /= b.minor THEN (IF a.minor < b.minor THEN -1 ELSE 1)
    ELSE IF a.patch /= b.patch THEN (IF a.patch < b.patch THEN -1 ELSE 1)
    ELSE IF a.pre = <<>> /\ b.pre = <<>> THEN 0
    ELSE IF a.pre = <<>> THEN 1
    ELSE IF b.pre = <<>> THEN -1
    ELSE comparePre(a.pre, b.pre)

\* semver.compare(a, b) on version strings
compare(a, b) == compareParsed(parseVersion(a), parseVersion(b))

\* semver.rcompare(a, b)
rcompare(a, b) == compare(b, a)

\* The range strings of the model, parsed: one comparator set each.
\*   any    *                      caret  ^v          tilde  ~v
\*   eq     v                      gte    >=v         invalid (unparsable)
Comparator(kind, v) == [kind |-> kind, v |-> v]

parseRange(r) ==
    CASE r = "*"           -> Comparator("any", SemVer(0, 0, 0, <<>>))
      [] r = ""            -> Comparator("any", SemVer(0, 0, 0, <<>>))
      [] r = "^1.0.0"      -> Comparator("caret", SemVer(1, 0, 0, <<>>))
      [] r = "^2"          -> Comparator("caret", SemVer(2, 0, 0, <<>>))
      [] r = "^2.0.0"      -> Comparator("caret", SemVer(2, 0, 0, <<>>))
      [] r = "^1.2.0-rc.0" -> Comparator("caret", SemVer(1, 2, 0, <<0, 0>>))
      [] r = "~1.0.0"      -> Comparator("tilde", SemVer(1, 0, 0, <<>>))
      [] r = "1.1.0"       -> Comparator("eq", SemVer(1, 1, 0, <<>>))
      [] r = ">=1.1.0"     -> Comparator("gte", SemVer(1, 1, 0, <<>>))
      [] r = "^9.0.0"      -> Comparator("caret", SemVer(9, 0, 0, <<>>))
      [] OTHER             -> Comparator("invalid", InvalidVersion)

\* the first version above a caret range
caretUpper(v) ==
    IF v.major > 0 THEN SemVer(v.major + 1, 0, 0, <<0>>)
    ELSE IF v.minor > 0 THEN SemVer(0, v.minor + 1, 0, <<0>>)
    ELSE SemVer(0, 0, v.patch + 1, <<0>>)

\* the first version above a tilde range
tildeUpper(v) == SemVer(v.major, v.minor + 1, 0, <<0>>)

\* the comparator set accepts the parsed version, pre-release rule aside
testSet(c, v) ==
    CASE c.kind = "any"   -> TRUE
      [] c.kind = "caret" -> compareParsed(v, c.v) >= 0 /\ compareParsed(v, caretUpper(c.v)) < 0
      [] c.kind = "tilde" -> compareParsed(v, c.v) >= 0 /\ compareParsed(v, tildeUpper(c.v)) < 0
      [] c.kind = "eq"    -> compareParsed(v, c.v) = 0
      [] c.kind = "gte"   -> compareParsed(v, c.v) >= 0
      [] OTHER            -> FALSE

\* a pre-release version is accepted only by a comparator that names a
\* pre-release of the same major.minor.patch
preAllowed(c, v) ==
    v.pre = <<>>
    \/ (/\ c.kind \in {"caret", "tilde", "eq", "gte"}
        /\ c.v.pre /= <<>>
        /\ c.v.major = v.major /\ c.v.minor = v.minor /\ c.v.patch = v.patch)

\* semver.satisfies(version, range)
satisfies(version, range) ==
    LET v == parseVersion(version)
        c == parseRange(range)
    IN  v.valid /\ c.kind /= "invalid" /\ testSet(c, v) /\ preAllowed(c, v)

-----------------------------------------------------------------------------
(* Registry metadata source *)

\* the pseudo-keys of the registry's `time` object
PseudoKeys == {"created", "modified"}

\* Outcomes of a resolution: a version, null, or a thrown error
VersionOutcome(v) == [kind |-> "version", version |-> v, message |-> ""]
NullOutcome == [kind |-> "null", version |-> "", message |-> ""]
ErrorOutcome(type, name) ==
    [kind |-> "error", version |-> "", message |-> type \o ": " \o name]
Pending == [kind |-> "pending", version |-> "", message |-> ""]

\* the metadata source a request is served from
Source(b, reg, down) == [backend |-> b, registry |-> reg, unreachable |-> down]

\* PackageMetadata of a registry document
toMetadata(name, doc) ==
    [name |-> name,
     versions |-> doc.versions,
     publishTimes |-> doc.time,
     distTags |-> doc.distTags]

\* fetchMetadata(name, registryEndpointOrFixture): the metadata, or the
\* error it fails with.  Both backends fail with NotFoundError for a name
\* they have no record of; only the live backend has a transport to fail.
fetchMetadata(name, source) ==
    IF source.backend = "live" /\ name \in source.unreachable
    THEN [ok |-> FALSE, error |-> ErrorOutcome("TransportError", name)]
    ELSE IF name \notin DOMAIN source.registry
    THEN [ok |-> FALSE, error |-> ErrorOutcome("NotFoundError", name)]
    ELSE [ok |-> TRUE, metadata |-> toMetadata(name, source.registry[name])]

-----------------------------------------------------------------------------
(* Version resolver *)

\* Date.parse of a publishTimes entry is a number (not NaN)
validTime(entry) == entry.iso

\* step 4: the entry exists, parses, and is strictly earlier than the cutoff
oldEnough(meta, version, cutoffDate) ==
    /\ version \in DOMAIN meta.publishTimes
    /\ validTime(meta.publishTimes[version])
    /\ meta.publishTimes[version].t < cutoffDate

\* step 2: the keys of `versions`, the pseudo-keys excluded
candidateVersions(meta) ==
    SelectSeq(meta.versions, LAMBDA v : v \notin PseudoKeys)

InSeq(x, s) == \E k \in 1..Len(s) : s[k] = x

\* "latest" read as the range * instead of the tag
matchRangeLatestAsAny(meta, range) ==
    SelectSeq(candidateVersions(meta),
              LAMBDA v : satisfies(v, IF range = "latest" THEN "*" ELSE range))

\* step 3: the candidates the range admits
matchRange(meta, range) ==
    LET candidates == candidateVersions(meta)
    IN  IF range = "latest"
        THEN IF "latest" \in DOMAIN meta.distTags
                /\ InSeq(meta.distTags["latest"], candidates)
             THEN <<meta.distTags["latest"]>>
             ELSE <<>>
        ELSE SelectSeq(candidates, LAMBDA v : satisfies(v, range))

\* step 4 over the list
ageFilter(meta, versions, cutoffDate, ignoreAge) ==
    IF ignoreAge THEN versions
    ELSE SelectSeq(versions, LAMBDA v : oldEnough(meta, v, cutoffDate))

\* the first of the list, as if it were already sorted
highestUnsorted(versions) == Head(versions)

RECURSIVE highest(_)
\* step 5: the highest of a non-empty list by semantic-version order
highest(versions) ==
    IF Len(versions) = 1 THEN Head(versions)
    ELSE LET h == highest(Tail(versions))
         IN  IF compare(Head(versions), h) > 0 THEN Head(versions) ELSE h

\* resolveSafeVersion(request)
resolveSafeVersion(request, source) ==
    LET fetched == fetchMetadata(request.name, source)
    IN  IF ~fetched.ok THEN fetched.error
        ELSE LET meta == fetched.metadata
                 surviving == ageFilter(meta, matchRange(meta, request.range),
                                        request.cutoffDate, request.ignoreAge)
             IN  IF surviving = <<>> THEN NullOutcome
                 ELSE VersionOutcome(highest(surviving))

-----------------------------------------------------------------------------
(* Strings the code takes apart *)

RECURSIVE Join(_)
\* the string a sequence of chunks spells
Join(chunks) == IF chunks = <<>> THEN "" ELSE Head(chunks) \o Join(Tail(chunks))

\* String.prototype.slice(from) and slice(0, to), on 0-based chunk indices
sliceFrom(s, from) == SubSeq(s, from + 1, Len(s))
sliceTo(s, to) == SubSeq(s, 1, to)

\* String.prototype.indexOf(chunk, from): 0-based, -1 when absent
indexOf(s, chunk, from) ==
    LET hits == {k \in from..(Len(s) - 1) : s[k + 1] = chunk}
    IN  IF hits = {} THEN -1 ELSE CHOOSE k \in hits : \A h \in hits : k <= h

\* String.prototype.lastIndexOf(chunk): 0-based, -1 when absent
lastIndexOf(s, chunk) ==
    LET hits == {k \in 0..(Len(s) - 1) : s[k + 1] = chunk}
    IN  IF hits = {} THEN -1 ELSE CHOOSE k \in hits : \A h \in hits : k >= h

\* x || "latest" on a string
orLatest(x) == IF x = "" THEN "latest" ELSE x

\* parsePackageSpec(spec): the name and range, or the Error it throws
parsePackageSpec(spec) ==
    IF spec = <<>>
    THEN [ok |-> FALSE, name |-> "", range |-> ""]
    ELSE IF Head(spec) = "@"
    THEN LET atIndex == indexOf(spec, "@", 1)
         IN  IF atIndex = -1
             THEN [ok |-> TRUE, name |-> Join(spec), range |-> "latest"]
             ELSE [ok |-> TRUE, name |-> Join(sliceTo(spec, atIndex)),
                   range |-> orLatest(Join(sliceFrom(spec, atIndex + 1)))]
    ELSE LET lastAt == lastIndexOf(spec, "@")
         IN  IF lastAt > 0
             THEN [ok |-> TRUE, name |-> Join(sliceTo(spec, lastAt)),
                   range |-> orLatest(Join(sliceFrom(spec, lastAt + 1)))]
             ELSE [ok |-> TRUE, name |-> Join(spec), range |-> "latest"]

\* Map: a sequence of entries [key, value] in insertion order
mapHas(map, key) == \E k \in 1..Len(map) : map[k].key = key

\* a present key is deleted and inserted again, at the end
mapSetReinsert(map, key, value) ==
    Append(SelectSeq(map, LAMBDA e : e.key /= key), [key |-> key, value |-> value])

\* Map.prototype.set: a present key keeps its place and takes the new value
mapSet(map, key, value) ==
    IF mapHas(map, key)
    THEN [k \in 1..Len(map) |->
            IF map[k].key = key THEN [key |-> key, value |-> value] ELSE map[k]]
    ELSE Append(map, [key |-> key, value |-> value])

RECURSIVE setAll(_, _)
\* entries.forEach(([name, range]) => map.set(name, range))
setAll(map, entries) ==
    IF entries = <<>> THEN map
    ELSE setAll(mapSet(map, Head(entries).key, Head(entries).value), Tail(entries))

RECURSIVE collectInto(_, _)
\* the loop of collectFromArgs; ok is FALSE when parsePackageSpec throws
collectInto(map, specs) ==
    IF specs = <<>> THEN [ok |-> TRUE, map |-> map]
    ELSE LET parsed == parsePackageSpec(Head(specs))
         IN  IF ~parsed.ok THEN [ok |-> FALSE, map |-> map]
             ELSE collectInto(mapSet(map, parsed.name, parsed.range), Tail(specs))

\* collectFromArgs(specs)
collectFromArgs(specs) == collectInto(<<>>, specs)

\* package.json is absent
NoFile == [exists |-> FALSE]

\* collectFromPackageJson({devOnly, prodOnly}) on an existing package.json
collectFromPackageJson(pkg, devOnly, prodOnly) ==
    LET withDev == IF ~prodOnly THEN setAll(<<>>, pkg.devDependencies) ELSE <<>>
    IN  IF ~devOnly THEN setAll(withDev, pkg.dependencies) ELSE withDev

RECURSIVE split(_, _)
\* String.prototype.split(sep): the pieces between separators
split(s, sep) ==
    LET at == indexOf(s, sep, 0)
    IN  IF at = -1 THEN <<s>>
        ELSE <<sliceTo(s, at)>> \o split(sliceFrom(s, at + 1), sep)

RECURSIVE trimStart(_)
trimStart(s) == IF s /= <<>> /\ Head(s) = " " THEN trimStart(Tail(s)) ELSE s

RECURSIVE trimEnd(_)
trimEnd(s) ==
    IF s /= <<>> /\ s[Len(s)] = " " THEN trimEnd(SubSeq(s, 1, Len(s) - 1)) ELSE s

\* String.prototype.trim
trim(s) == trimEnd(trimStart(s))

\* buildIgnoreSet(value)
buildIgnoreSet(value) ==
    IF value = <<>> THEN {}
    ELSE LET tokens == split(value, ",")
         IN  {Join(trim(tokens[k])) : k \in {j \in 1..Len(tokens) : Len(trim(tokens[j])) > 0}}

\* Number(options.minAgeDays)
toNumber(text) ==
    CASE text = "90" -> [nan |-> FALSE, value |-> 90]
      [] text = "0"  -> [nan |-> FALSE, value |-> 0]
      [] text = "-1" -> [nan |-> FALSE, value |-> -1]
      [] OTHER       -> [nan |-> TRUE, value |-> 0]

\* String(value).trim().toLowerCase()
toLowerCase(text) ==
    CASE text = "PNPM"      -> "pnpm"
      [] text = "Overrides" -> "overrides"
      [] OTHER              -> text

\* normalizePackageManager(value): the manager, or the exit it takes
normalizePackageManager(value) ==
    LET normalized == toLowerCase(value)
    IN  [ok |-> normalized \in {"npm", "pnpm"}, manager |-> normalized]

\* the factor 24 dropped: days taken for hours
cutOffMsHours(minAgeDays) == minAgeDays * 60 * 60

\* cutOffMs and cutoffDate of the install action
cutOffMs(minAgeDays) == minAgeDays * 24 * 60 * 60
cutoffDate(minAgeDays) == Now - cutOffMs(minAgeDays)

-----------------------------------------------------------------------------
(* Registry fixtures of the integration tests *)

Entry(key, value) == [key |-> key, value |-> value]

RECURSIVE insertDesc(_, _)
\* insert a version into a list sorted by semver.rcompare
insertDesc(v, sorted) ==
    IF sorted = <<>> THEN <<v>>
    ELSE IF rcompare(v, Head(sorted)) <= 0 THEN <<v>> \o sorted
    ELSE <<Head(sorted)>> \o insertDesc(v, Tail(sorted))

RECURSIVE sortDesc(_)
\* keys.sort((a, b) => semver.rcompare(a, b))
sortDesc(versions) ==
    IF versions = <<>> THEN <<>>
    ELSE insertDesc(Head(versions), sortDesc(Tail(versions)))

\* the keys of a list of entries, in order
keysOf(entries) == [k \in 1..Len(entries) |-> entries[k].key]

\* the value a list of entries holds for a key
valueOf(entries, key) ==
    entries[CHOOSE k \in 1..Len(entries) : entries[k].key = key].value

\* createPackage(name, versionDates)
createPackage(name, versionDates) ==
    LET keys == keysOf(versionDates)
        sortedVersions == sortDesc(keys)
    IN  [name |-> name,
         versions |-> keys,
         time |-> [k \in PseudoKeys \cup {keys[j] : j \in 1..Len(keys)} |->
                     IF k = "created" THEN isoDaysAgo(1000)
                     ELSE IF k = "modified" THEN isoDaysAgo(1)
                     ELSE valueOf(versionDates, k)],
         distTags |-> [t \in {"latest"} |->
                         IF sortedVersions = <<>> THEN "0.0.0" ELSE Head(sortedVersions)]]

\* createFixtureFile(packages): the fixture as a map name -> document
createFixtureFile(packages) ==
    [n \in {packages[k].name : k \in 1..Len(packages)} |->
        packages[CHOOSE k \in 1..Len(packages) : packages[k].name = n]]

\* "resolves the newest safe versions for cli arguments" and "fails fast in
\* strict mode when no versions meet the cutoff", with a package that has
\* no versions
FixtureSafe ==
    createFixtureFile(<<
        createPackage("alpha", <<Entry("1.0.0", isoDaysAgo(400)),
                                 Entry("1.1.0", isoDaysAgo(150)),
                                 Entry("1.2.0", isoDaysAgo(20))>>),
        createPackage("beta", <<Entry("2.0.0", isoDaysAgo(200)),
                                Entry("2.1.0", isoDaysAgo(95)),
                                Entry("2.2.0", isoDaysAgo(5))>>),
        createPackage("recent", <<Entry("1.0.0", isoDaysAgo(15)),
                                  Entry("1.1.0", isoDaysAgo(5))>>),
        createPackage("@scope/pkg", <<>>)>>)

\* "loads dependencies from package.json and honors the ignore list"
FixtureIgnore ==
    createFixtureFile(<<
        createPackage("alpha", <<Entry("1.1.0", isoDaysAgo(7))>>),
        createPackage("beta", <<Entry("2.0.0", isoDaysAgo(220))>>)>>)

Fixtures == {FixtureSafe, FixtureIgnore}

-----------------------------------------------------------------------------
(* Inputs of the install command *)

DEFAULT_REGISTRY == "https://registry.npmjs.org"

\* package specs of the command line
SpecArgs ==
    {<<"alpha">>, <<"alpha", "@", "^1.0.0">>, <<"beta", "@", "^2">>,
     <<"@", "ghost/pkg", "@", "1.1.0">>, <<>>}

RECURSIVE SeqsUpTo(_, _)
\* the sequences over S of length at most n
SeqsUpTo(S, n) ==
    IF n = 0 THEN {<<>>}
    ELSE LET shorter == SeqsUpTo(S, n - 1)
         IN  shorter \cup {Append(q, x) : q \in {r \in shorter : Len(r) = n - 1}, x \in S}

CommandLines == SeqsUpTo(SpecArgs, MaxArgs)

\* values of --ignore
IgnoreValues ==
    {<<>>, <<" ", "recent", " ", ",", ",", "alpha">>}

\* package.json files of the working directory
PackageJsons ==
    {NoFile,
     [exists |-> TRUE,
      dependencies |-> <<Entry("alpha", "latest"), Entry("recent", "*"),
                         Entry("@scope/pkg", "*")>>,
      devDependencies |-> <<Entry("recent", "^9.0.0"), Entry("beta", "^2.0.0")>>,
      overrides |-> <<Entry("alpha", "1.0.0")>>,
      pnpmOverrides |-> <<Entry("beta", "2.0.0")>>]}

OptionSets ==
    [minAgeDays : {"90", "-1", "abc"},
     registry : {DEFAULT_REGISTRY},
     packageManager : {"npm", "PNPM", "yarn"},
     dryRun : BOOLEAN,
     strict : BOOLEAN,
     dev : BOOLEAN,
     prodOnly : BOOLEAN,
     ignore : IgnoreValues,
     strategy : {"direct", "Overrides", "bogus"}]

\* the process has not exited
Running == -1

\* spawnSync's result.status: a status, or null when the child was killed
NullStatus == -1
SpawnStatuses == {0, 1, NullStatus}

NoResolution == [request |-> [name |-> "", range |-> "", registry |-> "",
                              cutoffDate |-> 0, ignoreAge |-> FALSE],
                 outcome |-> Pending]

\* the option checks of lines 44-62 end the run
rejected(opts) ==
    \/ toNumber(opts.minAgeDays).nan
    \/ toNumber(opts.minAgeDays).value < 0
    \/ ~normalizePackageManager(opts.packageManager).ok
    \/ (opts.dev /\ opts.prodOnly)

\* Inputs a run never reads are held at one value: a run the option checks
\* end reads only the options they test, and a run with packages on the
\* command line reads --dev and --prod-only only for their conjunction.
Init ==
    /\ options \in OptionSets
    /\ rejected(options) =>
          /\ ~options.dryRun /\ ~options.strict
          /\ options.ignore = <<>> /\ options.strategy = "direct"
    /\ argv \in (IF rejected(options) THEN {<<>>} ELSE CommandLines)
    /\ Len(argv) > 0 => options.dev = options.prodOnly
    /\ packageJson \in (IF rejected(options) THEN {NoFile} ELSE PackageJsons)
    /\ \E b \in (IF rejected(options) THEN {"fixture"} ELSE {"fixture", "live"}) :
        /\ backend = b
        /\ unreachable = (IF b = "live" THEN {"beta"} ELSE {})
    /\ registry \in Fixtures
    /\ pc = "start"
    /\ dependencyMap = <<>>
    /\ cursor = 1
    /\ resolved = <<>>
    /\ failures = <<>>
    /\ stdout = <<>>
    /\ exitCode = Running
    /\ spawned = <<>>
    /\ written = NoFile
    /\ last = NoResolution

-----------------------------------------------------------------------------
(* The install action *)

\* a line of console output
Line(kind, name, detail, note) ==
    [kind |-> kind, name |-> name, detail |-> detail, note |-> note]

NoVersionReason == "No version satisfies the range and age requirement"

\* Number(options.minAgeDays)
minAgeDays == toNumber(options.minAgeDays)

\* buildIgnoreSet(options.ignore)
ignoreSet == buildIgnoreSet(options.ignore)

\* the name -> range mapping the command works on, or the failure to build it
collectDependencies ==
    IF Len(argv) > 0 THEN collectFromArgs(argv)
    ELSE IF ~packageJson.exists THEN [ok |-> FALSE, map |-> <<>>]
    ELSE [ok |-> TRUE, map |-> collectFromPackageJson(packageJson, options.dev, options.prodOnly)]

\* process.exit(code) after printing `lines`
exit(code, lines) ==
    /\ pc' = "exited"
    /\ exitCode' = code
    /\ stdout' = stdout \o lines

\* lines 44-73: option validation and dependency collection
Start ==
    /\ pc = "start"
    /\ IF minAgeDays.nan \/ minAgeDays.value < 0
       THEN /\ exit(1, <<Line("error", "", "--min-age-days must be a non-negative number", "")>>)
            /\ UNCHANGED <<dependencyMap>>
       ELSE IF ~normalizePackageManager(options.packageManager).ok
       THEN /\ exit(1, <<Line("error", "", "Unsupported package manager", options.packageManager)>>)
            /\ UNCHANGED <<dependencyMap>>
       ELSE IF options.dev /\ options.prodOnly
       THEN /\ exit(1, <<Line("error", "", "--dev and --prod-only cannot be used together.", "")>>)
            /\ UNCHANGED <<dependencyMap>>
       ELSE LET collected == collectDependencies
            IN  IF ~collected.ok
                THEN /\ exit(1, <<Line("error", "",
                                       IF Len(argv) > 0 THEN "Empty package spec provided"
                                       ELSE "No package.json found in the current directory.", "")>>)
                     /\ UNCHANGED <<dependencyMap>>
                ELSE IF Len(collected.map) = 0
                THEN /\ exit(0, <<Line("info", "", "No dependencies to process.", "")>>)
                     /\ UNCHANGED <<dependencyMap>>
                ELSE /\ dependencyMap' = collected.map
                     /\ pc' = "resolve"
                     /\ stdout' = Append(stdout, Line("info", "", "Using minimum age", options.minAgeDays))
                     /\ UNCHANGED <<exitCode>>
    /\ UNCHANGED <<argv, options, packageJson, backend, registry, unreachable,
                   cursor, resolved, failures, spawned, written, last>>

\* any --ignore value switches the age filter off for every package
makeRequestIgnoreAll(name, range) ==
    [name |-> name,
     range |-> range,
     registry |-> options.registry,
     cutoffDate |-> cutoffDate(minAgeDays.value),
     ignoreAge |-> ignoreSet /= {}]

\* the request the loop hands to resolveSafeVersion for one entry
makeRequest(name, range) ==
    [name |-> name,
     range |-> range,
     registry |-> options.registry,
     cutoffDate |-> cutoffDate(minAgeDays.value),
     ignoreAge |-> name \in ignoreSet]

\* the reason always taken from the outcome's message
failureOfMessageOnly(name, range, outcome) ==
    [name |-> name, range |-> range, reason |-> outcome.message]

\* the fixed reason recorded for a thrown error too
failureOfFixedReason(name, range, outcome) ==
    [name |-> name, range |-> range, reason |-> NoVersionReason]

\* the failure the loop records for an outcome that is not a version (what
\* the metadata source throws is always an Error, so the reason is its message)
failureOf(name, range, outcome) ==
    [name |-> name, range |-> range,
     reason |-> IF outcome.kind = "null" THEN NoVersionReason ELSE outcome.message]

\* the catch block around the loop instead of inside it: an error ends it
afterEntryAbortOnError(outcome) ==
    IF cursor = Len(dependencyMap) \/ outcome.kind = "error" THEN "report" ELSE "resolve"

\* the loop goes on to the next entry whatever the outcome: the catch block
\* is inside the loop body
afterEntry(outcome) == IF cursor = Len(dependencyMap) THEN "report" ELSE "resolve"

\* lines 76-96: one iteration of the resolution loop
ResolveStep ==
    /\ pc = "resolve"
    /\ LET name == dependencyMap[cursor].key
           range == dependencyMap[cursor].value
           request == makeRequest(name, range)
           outcome == resolveSafeVersion(request, Source(backend, registry, unreachable))
       IN  /\ last' = [request |-> request, outcome |-> outcome]
           /\ IF outcome.kind = "version"
              THEN /\ resolved' = mapSet(resolved, name, outcome.version)
                   /\ UNCHANGED failures
              ELSE /\ failures' = Append(failures, failureOf(name, range, outcome))
                   /\ UNCHANGED resolved
           /\ pc' = afterEntry(outcome)
    /\ cursor' = cursor + 1
    /\ UNCHANGED <<argv, options, packageJson, backend, registry, unreachable,
                   dependencyMap, stdout, exitCode, spawned, written>>

\* lines 99-102: the failures, in the order of the list
failureLines ==
    IF Len(failures) > 0
    THEN <<Line("info", "", "Dependencies that could not be resolved safely:", "")>>
         \o [k \in 1..Len(failures) |->
                Line("failure", failures[k].name, failures[k].range, failures[k].reason)]
    ELSE <<>>

\* lines 113-117: the resolved versions, in the order of the map
safeLines ==
    <<Line("info", "", "Safe versions to install:", "")>>
    \o [k \in 1..Len(resolved) |->
           Line("safe", resolved[k].key, resolved[k].value,
                IF resolved[k].key \in ignoreSet THEN " (ignored)" ELSE "")]

\* the dry-run gate missing
gateNoDryRun ==
    IF Len(failures) > 0 /\ options.strict THEN "strict"
    ELSE IF Len(resolved) = 0 THEN "empty"
    ELSE "install"

\* lines 103, 108 and 119: the gate the action stops at, or "install"
gate ==
    IF Len(failures) > 0 /\ options.strict THEN "strict"
    ELSE IF Len(resolved) = 0 THEN "empty"
    ELSE IF options.dryRun THEN "dryRun"
    ELSE "install"

\* lines 98-122: the report and the gates before the installation strategy
Report ==
    /\ pc = "report"
    /\ IF gate = "strict"
       THEN exit(1, failureLines)
       ELSE IF gate = "empty"
       THEN exit(IF options.strict /\ Len(failures) > 0 THEN 1 ELSE 0,
                 failureLines \o <<Line("info", "", "No dependencies qualified for installation.", "")>>)
       ELSE IF gate = "dryRun"
       THEN exit(0, failureLines \o safeLines
                     \o <<Line("info", "", "Dry run enabled. No changes were made.", "")>>)
       ELSE /\ pc' = "strategy"
            /\ stdout' = stdout \o failureLines \o safeLines
            /\ UNCHANGED exitCode
    /\ UNCHANGED <<argv, options, packageJson, backend, registry, unreachable,
                   dependencyMap, cursor, resolved, failures, spawned, written, last>>

\* result.status ?? 1
statusOr1(status) == IF status = NullStatus THEN 1 ELSE status

\* line 206: name@version for every entry of the map, in its order
packageList(map) == [k \in 1..Len(map) |-> map[k].key \o "@" \o map[k].value]

\* { ...old, ...overrides }
spread(old, overrides) == setAll(old, overrides)

\* spawnSync(cmd, args)
Spawn(cmd, args) == [cmd |-> cmd, args |-> args]

\* lines 124-125 and 199-252: runStrategy(strategy, resolved, registry, packageManager)
RunStrategy ==
    /\ pc = "strategy"
    /\ LET strategy == toLowerCase(options.strategy)
           packageManager == normalizePackageManager(options.packageManager).manager
       IN  \E status \in SpawnStatuses :
           IF strategy = "direct"
           THEN /\ spawned' = Append(spawned,
                        Spawn(packageManager,
                              <<IF packageManager = "npm" THEN "install" ELSE "add">>
                              \o packageList(resolved) \o <<"--registry", options.registry>>))
                /\ exit(statusOr1(status), <<Line("run", packageManager, "direct", "")>>)
                /\ UNCHANGED written
           ELSE IF strategy = "overrides"
           THEN IF ~packageJson.exists
                THEN /\ exit(1, <<Line("error", "", "Cannot use overrides strategy without a package.json in the current directory.", "")>>)
                     /\ UNCHANGED <<spawned, written>>
                ELSE /\ written' =
                           IF packageManager = "npm"
                           THEN [packageJson EXCEPT !.overrides = spread(@, resolved)]
                           ELSE [packageJson EXCEPT !.pnpmOverrides = spread(@, resolved)]
                     /\ spawned' = Append(spawned,
                           Spawn(packageManager, <<"install", "--registry", options.registry>>))
                     /\ exit(statusOr1(status), <<Line("run", packageManager, "overrides", "")>>)
           ELSE /\ exit(1, <<Line("error", "", "Unknown strategy", strategy)>>)
                /\ UNCHANGED <<spawned, written>>
    /\ UNCHANGED <<argv, options, packageJson, backend, registry, unreachable,
                   dependencyMap, cursor, resolved, failures, last>>

Next == Start \/ ResolveStep \/ Report \/ RunStrategy

Spec == Init /\ [][Next]_vars

-----------------------------------------------------------------------------
(* One resolution over generated registry documents *)

\* the versions a generated document may publish
PublishedVersions == SubSeq(VersionList, 1, MaxVersions)

\* the `time` entries a generated document may hold for a version: 400, 150
\* and 20 days old, exactly 90 days old, and a string that is no date
TimeEntries ==
    {isoDaysAgo(400), isoDaysAgo(150), isoDaysAgo(90), isoDaysAgo(20), GarbageTime}

\* the sub-sequence of s at the positions in keep
pick(s, keep) == SelectSeq(s, LAMBDA v : v \in keep)

\* the range strings of a generated request
Ranges ==
    {"latest", "*", "^1.0.0", "~1.0.0", "1.1.0", ">=1.1.0", "^1.2.0-rc.0",
     "^9.0.0", "not a range"}

\* no distribution tags
NoTags == [t \in {} |-> ""]

\* the dist-tags of a generated document: none, or `latest` naming one of the
\* versions or a version that was never published
TagTables ==
    {NoTags} \cup {[t \in {"latest"} |-> v] :
                    v \in {PublishedVersions[k] : k \in 1..Len(PublishedVersions)}
                          \cup {"0.0.0"}}

\* registry documents for the package "pkg": any subset of the versions, any
\* subset of them timestamped, and any of the given dist-tags
GeneratedDocs(tagTables) ==
    LET universe == {PublishedVersions[k] : k \in 1..Len(PublishedVersions)}
    IN  UNION {
          UNION {
            UNION {
              {[name |-> "pkg",
                versions |-> pick(PublishedVersions, published),
                time |-> [k \in PseudoKeys \cup timed |->
                            IF k = "created" THEN isoDaysAgo(1000)
                            ELSE IF k = "modified" THEN isoDaysAgo(1)
                            ELSE times[k]],
                distTags |-> tags]
               : tags \in tagTables}
              : times \in [timed -> TimeEntries]}
            : timed \in SUBSET published}
          : published \in SUBSET universe}

\* the state after Start for the command line `pkg@range`; the dist-tags,
\* which only the range "latest" reads, vary with that range alone
InitResolve ==
    /\ \E range \in Ranges :
        /\ argv = <<<<"pkg", "@", range>>>>
        /\ \E doc \in GeneratedDocs(IF range = "latest" THEN TagTables ELSE {NoTags}) :
              registry = createFixtureFile(<<doc>>)
    /\ options \in [minAgeDays : {"90", "0"},
                    registry : {DEFAULT_REGISTRY},
                    packageManager : {"npm"},
                    dryRun : {TRUE},
                    strict : {FALSE},
                    dev : {FALSE},
                    prodOnly : {FALSE},
                    ignore : {<<>>, <<"pkg">>},
                    strategy : {"direct"}]
    /\ packageJson = NoFile
    /\ backend = "fixture"
    /\ unreachable = {}
    /\ pc = "resolve"
    /\ dependencyMap = collectFromArgs(argv).map
    /\ cursor = 1
    /\ resolved = <<>>
    /\ failures = <<>>
    /\ stdout = <<Line("info", "", "Using minimum age", options.minAgeDays)>>
    /\ exitCode = Running
    /\ spawned = <<>>
    /\ written = NoFile
    /\ last = NoResolution

NextResolve == ResolveStep

SpecResolve == InitResolve /\ [][NextResolve]_vars

-----------------------------------------------------------------------------
(* Vocabulary of the properties *)

\* the versions a registry document publishes
publishedIn(doc) == {doc.versions[k] : k \in 1..Len(doc.versions)}

\* the version is one the range admits: the tagged version for "latest",
\* a version satisfying the range otherwise
admits(doc, range, v) ==
    IF range = "latest"
    THEN "latest" \in DOMAIN doc.distTags /\ doc.distTags["latest"] = v
    ELSE satisfies(v, range)

\* the version has a timestamp that parses and lies strictly before `cutoff`
agedBefore(doc, v, cutoff) ==
    /\ v \in DOMAIN doc.time
    /\ doc.time[v].iso
    /\ doc.time[v].t < cutoff

\* now - minAgeDays * 24h, from the option as given
cutoffOfRun == Now - toNumber(options.minAgeDays).value * DAY_IN_MS

\* the version is published, admitted by the range and, unless the request
\* ignores age, old enough
qualifies(doc, request, v) ==
    /\ v \in publishedIn(doc)
    /\ admits(doc, request.range, v)
    /\ (request.ignoreAge \/ agedBefore(doc, v, request.cutoffDate))

\* the latest resolution was served from a registry document
served ==
    /\ last.outcome.kind /= "pending"
    /\ last.request.name \in DOMAIN registry
    /\ ~(backend = "live" /\ last.request.name \in unreachable)

\* the versions of the served document that qualify for the latest request
qualifying ==
    {v \in publishedIn(registry[last.request.name]) :
        qualifies(registry[last.request.name], last.request, v)}

-----------------------------------------------------------------------------
(* C1 *)

\* C1: whenever resolveSafeVersion returns a version, that version is
\* published, admitted by the range and (unless age is ignored) older than
\* the cutoff, and no other such version is greater in semver order.
C1_HighestQualifying ==
    (served /\ last.outcome.kind = "version") =>
        /\ last.outcome.version \in qualifying
        /\ \A w \in qualifying : compare(w, last.outcome.version) <= 0

\* 1.0.0 (400 days), 1.1.0 (150 days), 1.2.0 (20 days), minAgeDays = 90,
\* range *: resolved to 1.1.0
C1_Witness ==
    /\ served
    /\ last.request.range = "*"
    /\ ~last.request.ignoreAge
    /\ options.minAgeDays = "90"
    /\ registry["pkg"].versions = <<"1.1.0", "1.2.0", "1.0.0">>
    /\ DOMAIN registry["pkg"].time = PseudoKeys \cup {"1.0.0", "1.1.0", "1.2.0"}
    /\ registry["pkg"].time["1.0.0"] = isoDaysAgo(400)
    /\ registry["pkg"].time["1.1.0"] = isoDaysAgo(150)
    /\ registry["pkg"].time["1.2.0"] = isoDaysAgo(20)
    /\ last.outcome = VersionOutcome("1.1.0")

-----------------------------------------------------------------------------
(* C2 *)

\* C2: with age filtering active, a returned version has a timestamp that
\* exists, parses and is strictly earlier than now - minAgeDays * 24h; and
\* when every version the range admits is too young (or of unknown age) the
\* result is null.
C2_AgeFilter ==
    (served /\ ~last.request.ignoreAge) =>
        LET doc == registry[last.request.name]
            admitted == {v \in publishedIn(doc) : admits(doc, last.request.range, v)}
        IN  /\ last.outcome.kind = "version" =>
                agedBefore(doc, last.outcome.version, cutoffOfRun)
            /\ (\A v \in admitted : ~agedBefore(doc, v, cutoffOfRun)) =>
                last.outcome.kind = "null"

\* a version is returned although a greater admitted version is exactly at
\* the cutoff, and another has a timestamp that does not parse
C2_Witness ==
    /\ served
    /\ ~last.request.ignoreAge
    /\ last.request.range = "*"
    /\ options.minAgeDays = "90"
    /\ last.outcome = VersionOutcome("1.0.0")
    /\ "1.1.0" \in publishedIn(registry["pkg"])
    /\ "1.1.0" \in DOMAIN registry["pkg"].time
    /\ registry["pkg"].time["1.1.0"] = isoDaysAgo(90)
    /\ "1.2.0" \in publishedIn(registry["pkg"])
    /\ "1.2.0" \in DOMAIN registry["pkg"].time
    /\ registry["pkg"].time["1.2.0"] = GarbageTime

-----------------------------------------------------------------------------
(* C4 *)

\* the `latest` tag names a published version
latestPublished(doc) ==
    /\ "latest" \in DOMAIN doc.distTags
    /\ doc.distTags["latest"] \in publishedIn(doc)

-----------------------------------------------------------------------------
(* C7 *)

\* C7: when the package is in the registry and none of its versions is
\* admitted by the range, the resolution returns null, not an error, and the
\* loop records one failure with the fixed reason.
C7_NoMatchIsNull ==
    (served /\ \A v \in publishedIn(registry[last.request.name]) :
                  ~admits(registry[last.request.name], last.request.range, v)) =>
        /\ last.outcome = NullOutcome
        /\ resolved = <<>>
        /\ failures = <<[name |-> last.request.name,
                         range |-> last.request.range,
                         reason |-> "No version satisfies the range and age requirement"]>>

\* a package with published versions, none in the range ^9.0.0
C7_Witness ==
    /\ served
    /\ last.request.range = "^9.0.0"
    /\ Len(registry["pkg"].versions) = 2
    /\ last.outcome = NullOutcome
    /\ Len(failures) = 1

-----------------------------------------------------------------------------
(* Vocabulary of the properties of a whole run *)

\* the action has left the resolution loop over a non-empty map
loopDone == dependencyMap /= <<>> /\ pc \in {"report", "strategy", "exited"}

\* the entries of the map the loop has gone through
processed == 1..(cursor - 1)

\* the fetch for the name reaches a registry document
reaches(name) ==
    name \in DOMAIN registry /\ ~(backend = "live" /\ name \in unreachable)

\* the name is one the --ignore list spells out
listed(name) == \E k \in 1..Len(options.ignore) : options.ignore[k] = name

\* the resolved map holds exactly this version for the name
resolvedTo(name, version) ==
    \E k \in 1..Len(resolved) : resolved[k] = [key |-> name, value |-> version]

\* how many entries the resolved map and the failures list hold for a name
timesResolved(name) == Cardinality({k \in 1..Len(resolved) : resolved[k].key = name})
timesFailed(name) == Cardinality({k \in 1..Len(failures) : failures[k].name = name})

\* the failures list holds this reason for the name and range
failedWith(name, range, reason) ==
    \E k \in 1..Len(failures) :
        failures[k] = [name |-> name, range |-> range, reason |-> reason]

\* a package manager was invoked or package.json was written
installed == spawned /= <<>> \/ written.exists

-----------------------------------------------------------------------------
(* C3 *)

\* C3: a package named in --ignore resolves to the highest published
\* version its range admits, whatever the publish times and the cutoff (or
\* fails with the fixed reason when the range admits none); a package not
\* named there resolves only to a version older than the cutoff.
C3_IgnoreAge ==
    \A k \in processed :
        LET name == dependencyMap[k].key
            range == dependencyMap[k].value
        IN  reaches(name) =>
            LET doc == registry[name]
                admitted == {v \in publishedIn(doc) : admits(doc, range, v)}
            IN  IF listed(name)
                THEN /\ admitted = {} => failedWith(name, range, NoVersionReason)
                     /\ \A v \in admitted :
                            (\A w \in admitted : compare(w, v) <= 0) => resolvedTo(name, v)
                ELSE \A v \in publishedIn(doc) :
                        resolvedTo(name, v) => agedBefore(doc, v, cutoffOfRun)

\* one run in which the ignored package `recent` resolves to a version 5
\* days old while `beta`, not ignored, resolves past its 5-day-old 2.2.0
C3_Witness ==
    /\ loopDone
    /\ registry = FixtureSafe
    /\ listed("recent") /\ ~listed("beta")
    /\ resolvedTo("recent", "1.1.0")
    /\ resolvedTo("beta", "2.1.0")

-----------------------------------------------------------------------------
(* C5 *)

\* the command line names the package without a range
givenBare(name) == \E k \in 1..Len(argv) : argv[k] = <<name>>

\* C5: a package given on the command line without a range, with age
\* filtering active, resolves to the newest published version older than
\* the cutoff, whatever the `latest` tag names.
C5_BareSpecNewestSafe ==
    \A k \in processed :
        LET name == dependencyMap[k].key
        IN  (/\ Len(argv) > 0
             /\ givenBare(name)
             /\ dependencyMap[k].value = "latest"
             /\ ~listed(name)
             /\ reaches(name)) =>
            LET doc == registry[name]
                aged == {v \in publishedIn(doc) : agedBefore(doc, v, cutoffOfRun)}
            IN  \A v \in aged :
                    (\A w \in aged : compare(w, v) <= 0) => resolvedTo(name, v)

-----------------------------------------------------------------------------
(* C6 *)

\* C6: once the loop has gone through the map, every requested name is in
\* exactly one of the resolved map and the failures list, exactly once, and
\* what is recorded for it is the outcome of resolving that name alone.
C6_ExactlyOneOutcome ==
    loopDone =>
        \A k \in 1..Len(dependencyMap) :
            LET name == dependencyMap[k].key
                range == dependencyMap[k].value
                alone == resolveSafeVersion(makeRequest(name, range),
                                            Source(backend, registry, unreachable))
            IN  /\ timesResolved(name) + timesFailed(name) = 1
                /\ alone.kind = "version" <=> timesResolved(name) = 1
                /\ alone.kind = "version" => resolvedTo(name, alone.version)
                /\ alone.kind = "null" => failedWith(name, range, NoVersionReason)
                /\ alone.kind = "error" => failedWith(name, range, alone.message)

\* the first name threw and the second, resolved after it, got its version
C6_Witness ==
    /\ loopDone
    /\ Len(dependencyMap) = 2
    /\ failures = <<[name |-> "@ghost/pkg", range |-> "1.1.0",
                     reason |-> "NotFoundError: @ghost/pkg"]>>
    /\ resolved = <<[key |-> "beta", value |-> "2.1.0"]>>

-----------------------------------------------------------------------------
(* C8 *)

\* C8: a name the metadata source has no record of ends as a failure that
\* carries the NotFoundError's message, never as a resolved version or as
\* the no-version failure, and the run goes on through the rest of the map.
C8_NotFound ==
    /\ \A k \in processed :
        LET name == dependencyMap[k].key
            range == dependencyMap[k].value
        IN  (name \notin DOMAIN registry /\ ~(backend = "live" /\ name \in unreachable)) =>
                /\ failedWith(name, range, "NotFoundError: " \o name)
                /\ ~failedWith(name, range, NoVersionReason)
                /\ timesResolved(name) = 0
                /\ timesFailed(name) = 1
    /\ loopDone => cursor = Len(dependencyMap) + 1

\* an absent name was looked up on the live backend and the loop went on to
\* the next entry
C8_Witness ==
    /\ backend = "live"
    /\ pc = "resolve"
    /\ cursor = 2
    /\ dependencyMap[1].key = "@ghost/pkg"
    /\ last.outcome.kind = "error"
    /\ failures = <<[name |-> "@ghost/pkg", range |-> "1.1.0",
                     reason |-> "NotFoundError: @ghost/pkg"]>>

-----------------------------------------------------------------------------
(* C9 *)

\* the installation strategy is reached only with a non-empty resolved map,
\* --dry-run off and no strict failure
strategyGated ==
    (pc = "strategy" \/ installed) =>
        /\ resolved /= <<>>
        /\ ~options.dryRun
        /\ ~(options.strict /\ failures /= <<>>)

\* with --strict and a failure the process exits 1 before any install
strictExits ==
    (loopDone /\ pc = "exited" /\ options.strict /\ failures /= <<>>) =>
        exitCode = 1 /\ ~installed

\* C9 as stated: the gating, the strict exit, and with --dry-run the process
\* exits 0 without installing.
C9_AsStated ==
    /\ strategyGated
    /\ strictExits
    /\ (loopDone /\ pc = "exited" /\ options.dryRun) => exitCode = 0 /\ ~installed

\* C9 as amended: the gating, the strict exit, and with --dry-run the process
\* never installs and, unless it is strict with a failure, exits 0.
C9_InstallGate ==
    /\ strategyGated
    /\ strictExits
    /\ options.dryRun => ~installed
    /\ (loopDone /\ pc = "exited" /\ options.dryRun
        /\ ~(options.strict /\ failures /= <<>>)) => exitCode = 0

\* a dry run that resolved one package and failed another exited 0 with
\* nothing installed
C9_Witness ==
    /\ loopDone
    /\ pc = "exited"
    /\ options.dryRun /\ ~options.strict
    /\ resolved /= <<>> /\ failures /= <<>>
    /\ exitCode = 0
    /\ ~installed

-----------------------------------------------------------------------------
(* C10 *)

\* the names of the input, in the order given: the command line, or
\* devDependencies then dependencies of package.json
inputNames ==
    IF Len(argv) > 0 THEN [k \in 1..Len(argv) |-> parsePackageSpec(argv[k]).name]
    ELSE (IF options.prodOnly THEN <<>> ELSE keysOf(packageJson.devDependencies))
         \o (IF options.dev THEN <<>> ELSE keysOf(packageJson.dependencies))

\* the first place of a name in a list of names
firstPlace(names, name) ==
    CHOOSE k \in 1..Len(names) :
        names[k] = name /\ \A j \in 1..(k - 1) : names[j] /= name

\* the place of a name in the dependency map
placeOf(name) == CHOOSE k \in 1..Len(dependencyMap) : dependencyMap[k].key = name

\* the lines of one kind are in the order of the dependency map
linesInOrder(kind) ==
    \A i, j \in 1..Len(stdout) :
        (i < j /\ stdout[i].kind = kind /\ stdout[j].kind = kind) =>
            placeOf(stdout[i].name) < placeOf(stdout[j].name)

\* name@version of the resolved names, in the order of the dependency map
expectedPackages ==
    LET kept == SelectSeq(dependencyMap, LAMBDA e : timesResolved(e.key) = 1)
    IN  [k \in 1..Len(kept) |->
            kept[k].key \o "@"
            \o resolved[CHOOSE j \in 1..Len(resolved) : resolved[j].key = kept[k].key].value]

\* C10: the dependency map keeps the order of first occurrence of the input
\* names; failures, and separately successes, are reported in that order;
\* and the package list of a direct install is in that order.
C10_InputOrder ==
    dependencyMap /= <<>> =>
        /\ \A i, j \in 1..Len(dependencyMap) :
              i < j => firstPlace(inputNames, dependencyMap[i].key)
                       < firstPlace(inputNames, dependencyMap[j].key)
        /\ linesInOrder("failure")
        /\ linesInOrder("safe")
        /\ \A k \in 1..Len(spawned) :
              spawned[k].args[1] \in {"install", "add"} /\ Len(spawned[k].args) > 3 =>
                  SubSeq(spawned[k].args, 2, Len(spawned[k].args) - 2) = expectedPackages

\* package.json names `recent` in devDependencies and again in dependencies;
\* three packages were reported and handed to a direct install
C10_Witness ==
    /\ Len(argv) = 0
    /\ pc = "exited"
    /\ Len(dependencyMap) = 4
    /\ dependencyMap[1].key = "recent"
    /\ Len(resolved) = 3
    /\ Len(spawned) = 1
    /\ Len(spawned[1].args) = 6

=============================================================================
